---- MODULE Spec2Model ----
(***************************************************************************)
(* A model of skills/kalshi-trading/scripts/kalshi_client.py: the          *)
(* KalshiClient constructor, the request signer (_get_auth_headers), the   *)
(* generic dispatch (_request) and the eleven endpoint methods.            *)
(*                                                                         *)
(* Python values are represented as follows.                               *)
(*   Optional[T]     None is <<>>, a value v is <<v>>                      *)
(*   str, int, bool  TLA+ strings, integers, booleans                      *)
(*   dict            a function from string keys to values                 *)
(*   an exception    an outcome record of kind "raise"                     *)
(* One endpoint call is one action: it draws the caller's arguments and    *)
(* what the outside world does during the call (the clock readings, the    *)
(* transport's answer), runs the code, and records in `last` what was      *)
(* handed to the transport and what the caller received.                   *)
(***************************************************************************)
EXTENDS Integers, Sequences, FiniteSets, TLC

VARIABLES
    client,     \* the fields of the KalshiClient object (self)
    ctor,       \* the constructor's arguments and os.environ as it read them
    environ,    \* os.environ now
    last        \* the most recent endpoint call: inputs, requests sent, outcome

vars == <<client, ctor, environ, last>>

(***************************************************************************)
(* Bounds of the model.                                                    *)
(***************************************************************************)
\* The latest clock reading, in milliseconds: readings are MaxTime-1 and MaxTime.
MaxTime == 10

(***************************************************************************)
(* Python basics.                                                          *)
(***************************************************************************)
None == <<>>
Some(v) == <<v>>

\* bool(x) for x: Optional[str]: None and "" are falsy.
TruthyStr(x) == x # None /\ x[1] # ""

\* bool(x) for x: Optional[int]: None and 0 are falsy.
TruthyInt(x) == x # None /\ x[1] # 0

\* `a or b` on Optional[str] operands: a when a is truthy, else b.
PyOr(a, b) == IF TruthyStr(a) THEN a ELSE b

\* A parameter with a default: the default when the caller passes nothing.
Bind(arg, default) == IF arg = None THEN default ELSE arg[1]

\* str(n) for a natural number n.
Digit(d) ==
    CASE d = 0 -> "0" [] d = 1 -> "1" [] d = 2 -> "2" [] d = 3 -> "3"
      [] d = 4 -> "4" [] d = 5 -> "5" [] d = 6 -> "6" [] d = 7 -> "7"
      [] d = 8 -> "8" [] d = 9 -> "9"

RECURSIVE Str(_)
Str(n) == IF n < 10 THEN Digit(n) ELSE Str(n \div 10) \o Digit(n % 10)

(***************************************************************************)
(* The constructor, KalshiClient.__init__.                                 *)
(***************************************************************************)
DEFAULT_BASE_URL == "https://api.elections.kalshi.com/trade-api/v2"
DEMO_BASE_URL == "https://demo-api.kalshi.co/trade-api/v2"

\* os.environ.get(name): None when the variable is unset.
EnvGet(env, name) == env[name]

\* Faulty variant: the environment variable before the argument.
ResolveCredentialEnvFirst(arg, envval) == PyOr(envval, arg)

\* api_key or os.environ.get(...), private_key_pem or os.environ.get(...)
ResolveCredential(arg, envval) == PyOr(arg, envval)

\* Faulty variant: the override before the demo flag.
SelectBaseUrlOverrideFirst(base_url, demo) ==
    IF TruthyStr(base_url) THEN base_url[1]
    ELSE IF demo THEN DEMO_BASE_URL ELSE DEFAULT_BASE_URL

\* if demo: DEMO_BASE_URL else: base_url or DEFAULT_BASE_URL
SelectBaseUrl(base_url, demo) ==
    IF demo THEN DEMO_BASE_URL
    ELSE IF TruthyStr(base_url) THEN base_url[1] ELSE DEFAULT_BASE_URL

\* serialization.load_pem_private_key: the key object a PEM text denotes.
\* Every PEM text the model draws is well-formed, so loading succeeds (a
\* malformed text makes the constructor raise, and no client exists).
LoadPem(pem) == "key<" \o pem \o ">"

Construct(args, env) ==
    LET api_key == ResolveCredential(args.api_key, EnvGet(env, "KALSHI_API_KEY"))
        pem == ResolveCredential(args.private_key_pem,
                                 EnvGet(env, "KALSHI_PRIVATE_KEY"))
    IN  [ api_key         |-> api_key,
          private_key_pem |-> pem,
          base_url        |-> SelectBaseUrl(args.base_url, args.demo),
          private_key     |-> IF TruthyStr(pem) THEN Some(LoadPem(pem[1]))
                              ELSE None ]

(***************************************************************************)
(* Outcomes of a call, and what the transport answers.                     *)
(***************************************************************************)
NoResponse == [error |-> FALSE, status |-> 0, body |-> ""]

\* requests.request raised (DNS, connection refused, timeout).
TransportFailure == [error |-> TRUE, status |-> 0, body |-> ""]

HttpResponse(status, body) == [error |-> FALSE, status |-> status, body |-> body]

\* An exception of class err; an HTTPError carries its response.
Raise(err, response) ==
    [kind |-> "raise", error |-> err, response |-> response, value |-> None]

Return(v) ==
    [kind |-> "return", error |-> "", response |-> NoResponse, value |-> Some(v)]

(***************************************************************************)
(* The signer, KalshiClient._get_auth_headers.                             *)
(***************************************************************************)
\* private_key.sign(message, PKCS1v15, SHA256): deterministic in key and message.
Sign(key, message) == "sig<" \o key \o "|" \o message \o ">"

\* base64.b64encode(signature).decode()
B64(signature) == "b64<" \o signature \o ">"

\* f"{timestamp}{method}{path}"
AuthMessage(timestamp, method, path) == timestamp \o method \o path

\* Faulty variant: only the key identifier is required.
MissingCredentialsKeyIdOnly(self) == ~TruthyStr(self.api_key)

\* not self.api_key or not self._private_key
MissingCredentials(self) ==
    ~TruthyStr(self.api_key) \/ self.private_key = None

PlainHeaders == "Content-Type" :> "application/json"

AuthRaise(err, reads) ==
    [raised |-> TRUE, error |-> err, headers |-> PlainHeaders, clockReads |-> reads]

\* Faulty variant: the clock is read again for the header.
GetAuthHeadersRereadClock(self, method, path, clock) ==
    IF MissingCredentials(self)
    THEN AuthRaise("ValueError", 0)
    ELSE LET message == AuthMessage(Str(clock[1]), method, path)
         IN  [ raised |-> FALSE, error |-> "",
               headers |->
                   "KALSHI-ACCESS-KEY" :> self.api_key[1]
                   @@ "KALSHI-ACCESS-SIGNATURE" :>
                          B64(Sign(self.private_key[1], message))
                   @@ "KALSHI-ACCESS-TIMESTAMP" :> Str(clock[2])
                   @@ "Content-Type" :> "application/json",
               clockReads |-> 2 ]

\* clock[i] is what the i-th reading of time.time() * 1000, cut to an int,
\* gives during this call; the code reads it once.
GetAuthHeaders(self, method, path, clock) ==
    IF MissingCredentials(self)
    THEN AuthRaise("ValueError", 0)
    ELSE IF self.private_key = None
    THEN \* None has no attribute sign (after the clock was read)
         AuthRaise("AttributeError", 1)
    ELSE LET timestamp == Str(clock[1])
             message == AuthMessage(timestamp, method, path)
             signature == Sign(self.private_key[1], message)
         IN  [ raised |-> FALSE, error |-> "",
               headers |->
                   "KALSHI-ACCESS-KEY" :> self.api_key[1]
                   @@ "KALSHI-ACCESS-SIGNATURE" :> B64(signature)
                   @@ "KALSHI-ACCESS-TIMESTAMP" :> timestamp
                   @@ "Content-Type" :> "application/json",
               clockReads |-> 1 ]

(***************************************************************************)
(* Response bodies and response.json().  A body is its text; the JSON      *)
(* values the model needs are an object with one member, an array, and     *)
(* text that is no JSON at all.  A member's value is kept as its text.     *)
(***************************************************************************)
EnvelopeFields ==
    { "markets", "market", "orderbook", "trades", "events", "event", "balance",
      "market_positions", "orders", "order", "error" }

Payloads == { "payload", "not_found" }

\* The text of the JSON object {field: payload}.
Wrap(field, payload) == "{" \o field \o ":" \o payload \o "}"

NotJson == "<html>"
JsonArray == "[]"

\* json.loads(text): ok is FALSE when the text is not JSON (JSONDecodeError).
JsonLoads(text) ==
    IF \E f \in EnvelopeFields, p \in Payloads : text = Wrap(f, p)
    THEN LET fp == CHOOSE fp \in EnvelopeFields \X Payloads :
                       text = Wrap(fp[1], fp[2])
         IN  [ok |-> TRUE, type |-> "dict", members |-> fp[1] :> fp[2]]
    ELSE IF text = JsonArray
    THEN [ok |-> TRUE, type |-> "list", members |-> <<>>]
    ELSE [ok |-> FALSE, type |-> "", members |-> <<>>]

\* The Python value of a parsed body.
PyValue(parsed) == [type |-> parsed.type, members |-> parsed.members]

(***************************************************************************)
(* The generic dispatch, KalshiClient._request.                            *)
(***************************************************************************)
\* Faulty variant: only 5xx raises.
RaiseForStatusServerOnly(status) == 500 <= status /\ status < 600

\* response.raise_for_status() raises HTTPError for 4xx and 5xx, and only then.
RaiseForStatus(status) == 400 <= status /\ status < 600

\* What _request does once the transport has answered.
Receive(response) ==
    IF response.error
    THEN Raise("ConnectionError", NoResponse)
    ELSE IF RaiseForStatus(response.status)
    THEN Raise("HTTPError", response)
    ELSE LET parsed == JsonLoads(response.body)
         IN  IF parsed.ok THEN Return(PyValue(parsed))
             ELSE Raise("JSONDecodeError", NoResponse)

TransportRequest(method, url, headers, params, json_data) ==
    [ method |-> method, url |-> url, headers |-> headers,
      params |-> params, json |-> json_data ]

\* Faulty variant: signs whenever credentials are configured.
RequestSignsWhenItCan(self, method, path, params, json_data, authenticated, net) ==
    LET auth == GetAuthHeaders(self, method, path, net.clock)
        headers == IF auth.raised THEN PlainHeaders ELSE auth.headers
    IN  IF authenticated /\ auth.raised
        THEN [sent |-> <<>>, clockReads |-> auth.clockReads,
              outcome |-> Raise(auth.error, NoResponse)]
        ELSE [sent |-> << TransportRequest(method, self.base_url \o path, headers,
                                           params, json_data) >>,
              clockReads |-> auth.clockReads,
              outcome |-> Receive(net.response)]

\* Faulty variant: a failed request is sent a second time.
RequestRetriesOnce(self, method, path, params, json_data, authenticated, net) ==
    LET auth == IF authenticated
                THEN GetAuthHeaders(self, method, path, net.clock)
                ELSE [raised |-> FALSE, error |-> "", headers |-> PlainHeaders,
                      clockReads |-> 0]
        req == TransportRequest(method, self.base_url \o path, auth.headers,
                                params, json_data)
        outcome == Receive(net.response)
    IN  IF auth.raised
        THEN [sent |-> <<>>, clockReads |-> auth.clockReads,
              outcome |-> Raise(auth.error, NoResponse)]
        ELSE [sent |-> IF outcome.kind = "raise" THEN <<req, req>> ELSE <<req>>,
              clockReads |-> auth.clockReads,
              outcome |-> outcome]

\* net is what the outside world does during the call: net.clock the clock
\* readings, net.response the transport's answer to the request.  The result
\* lists the transport's invocations (sent) and the caller's outcome.
Request(self, method, path, params, json_data, authenticated, net) ==
    LET url == self.base_url \o path
        auth == IF authenticated
                THEN GetAuthHeaders(self, method, path, net.clock)
                ELSE [raised |-> FALSE, error |-> "", headers |-> PlainHeaders,
                      clockReads |-> 0]
    IN  IF auth.raised
        THEN [sent |-> <<>>, clockReads |-> auth.clockReads,
              outcome |-> Raise(auth.error, NoResponse)]
        ELSE [sent |-> << TransportRequest(method, url, auth.headers,
                                           params, json_data) >>,
              clockReads |-> auth.clockReads,
              outcome |-> Receive(net.response)]

(***************************************************************************)
(* Unwrapping the envelope: result.get(field, default).                    *)
(***************************************************************************)
EmptyList == "[]"
EmptyDict == "{}"

\* Faulty variant: the wrong empty container.
UnwrapSwappedDefault(outcome, field, default) ==
    IF outcome.kind = "raise" THEN outcome
    ELSE IF outcome.value[1].type # "dict"
    THEN Raise("AttributeError", NoResponse)
    ELSE IF field \in DOMAIN outcome.value[1].members
    THEN Return(outcome.value[1].members[field])
    ELSE Return(IF default = EmptyList THEN EmptyDict ELSE EmptyList)

\* An exception of _request propagates; a value that is no dict has no .get.
Unwrap(outcome, field, default) ==
    IF outcome.kind = "raise" THEN outcome
    ELSE IF outcome.value[1].type # "dict"
    THEN Raise("AttributeError", NoResponse)
    ELSE IF field \in DOMAIN outcome.value[1].members
    THEN Return(outcome.value[1].members[field])
    ELSE Return(default)

(***************************************************************************)
(* Inputs.  A profile p says which inputs a specification draws widely:    *)
(* p.args the callers' arguments and the clock readings, p.responses the   *)
(* transport's answers.                                                    *)
(***************************************************************************)
Tickers == { "T" }

\* An Optional[str] argument: left out (None), empty, or a value.
OptStrArgs(p) == IF p.args THEN { None, Some(""), Some("c") } ELSE { None }

\* depth: Optional[int].
DepthArgs(p) == IF p.args THEN { None, Some(0), Some(5) } ELSE { None }

\* An argument with a default: left out, or passed.
LimitArgs(p) == IF p.args THEN { None, Some(10) } ELSE { None }
StatusArgs(p) == IF p.args THEN { None, Some("open") } ELSE { None }
SettlementArgs(p) == IF p.args THEN { None, Some("settled") } ELSE { None }
OrderTypeArgs(p) == IF p.args THEN { None, Some("limit"), Some("market") } ELSE { None }
SideArgs(p) == IF p.args THEN { "yes", "no", "maybe" } ELSE { "yes" }
PriceArgs(p) == IF p.args THEN { 1, 42 } ELSE { 42 }

Times == { MaxTime - 1, MaxTime }

\* Two successive clock readings; time does not run backwards within a call.
Clocks(p) ==
    IF p.args THEN { c \in Times \X Times : c[1] <= c[2] }
    ELSE { <<MaxTime - 1, MaxTime>> }

Statuses == { 199, 200, 299, 300, 399, 400, 599, 600 }

Bodies(field) ==
    { NotJson, JsonArray, Wrap("error", "not_found"), Wrap(field, "payload") }

Responses(p, field) ==
    IF p.responses
    THEN { TransportFailure }
         \cup { HttpResponse(s, b) : s \in Statuses, b \in Bodies(field) }
    ELSE { TransportFailure,
           HttpResponse(200, Wrap(field, "payload")),
           HttpResponse(404, Wrap("error", "not_found")) }

\* A public endpoint never reads the clock: one pair of readings stands for all.
PublicNets(p, field) ==
    { [clock |-> <<MaxTime - 1, MaxTime>>, response |-> r] :
          r \in Responses(p, field) }

AuthNets(p, field) ==
    { [clock |-> c, response |-> r] : c \in Clocks(p), r \in Responses(p, field) }

(***************************************************************************)
(* The endpoint methods.  None of them assigns a field of self.            *)
(***************************************************************************)
NoCall ==
    [ op |-> "none", args |-> <<>>, method |-> "", path |-> "",
      authenticated |-> FALSE, field |-> "",
      net |-> [clock |-> <<>>, response |-> NoResponse],
      sent |-> <<>>, clockReads |-> 0, outcome |-> Return("") ]

\* The record of a finished call.
CallRecord(op, args, method, path, authenticated, field, net, result, outcome) ==
    [ op |-> op, args |-> args, method |-> method, path |-> path,
      authenticated |-> authenticated, field |-> field, net |-> net,
      sent |-> result.sent, clockReads |-> result.clockReads,
      outcome |-> outcome ]

\* Faulty variant: `if value is not None`.
WithOptStrNotNone(params, key, value) ==
    IF value # None THEN params @@ (key :> value[1]) ELSE params

\* if value: params[key] = value      (value: Optional[str])
WithOptStr(params, key, value) ==
    IF TruthyStr(value) THEN params @@ (key :> value[1]) ELSE params

\* if depth: params["depth"] = depth  (depth: Optional[int])
WithOptInt(params, key, value) ==
    IF TruthyInt(value) THEN params @@ (key :> value[1]) ELSE params

GetMarkets(p) ==
    \E limit \in LimitArgs(p), status \in StatusArgs(p),
       cursor \in OptStrArgs(p), event_ticker \in OptStrArgs(p),
       net \in PublicNets(p, "markets") :
        LET params0 == [limit |-> Bind(limit, 100), status |-> Bind(status, "open")]
            params1 == WithOptStr(params0, "cursor", cursor)
            params == WithOptStr(params1, "event_ticker", event_ticker)
            result == Request(client, "GET", "/markets", Some(params), None, FALSE, net)
        IN  /\ last' = CallRecord("get_markets",
                                [limit |-> limit, status |-> status, cursor |-> cursor,
                                 event_ticker |-> event_ticker],
                                "GET", "/markets", FALSE, "markets", net, result,
                                Unwrap(result.outcome, "markets", EmptyList))
            /\ UNCHANGED <<client, ctor, environ>>

GetMarket(p) ==
    \E ticker \in Tickers, net \in PublicNets(p, "market") :
        LET path == "/markets/" \o ticker
            result == Request(client, "GET", path, None, None, FALSE, net)
        IN  /\ last' = CallRecord("get_market", [ticker |-> Some(ticker)],
                                "GET", path, FALSE, "market", net, result,
                                Unwrap(result.outcome, "market", EmptyDict))
            /\ UNCHANGED <<client, ctor, environ>>

GetOrderbook(p) ==
    \E ticker \in Tickers, depth \in DepthArgs(p),
       net \in PublicNets(p, "orderbook") :
        LET path == "/markets/" \o ticker \o "/orderbook"
            params == WithOptInt(<<>>, "depth", depth)
            result == Request(client, "GET", path, Some(params), None, FALSE, net)
        IN  /\ last' = CallRecord("get_orderbook", [ticker |-> Some(ticker), depth |-> depth],
                                "GET", path, FALSE, "orderbook", net, result,
                                Unwrap(result.outcome, "orderbook", EmptyDict))
            /\ UNCHANGED <<client, ctor, environ>>

GetTrades(p) ==
    \E ticker \in Tickers, limit \in LimitArgs(p), cursor \in OptStrArgs(p),
       net \in PublicNets(p, "trades") :
        LET path == "/markets/" \o ticker \o "/trades"
            params == WithOptStr([limit |-> Bind(limit, 100)], "cursor", cursor)
            result == Request(client, "GET", path, Some(params), None, FALSE, net)
        IN  /\ last' = CallRecord("get_trades",
                                [ticker |-> Some(ticker), limit |-> limit, cursor |-> cursor],
                                "GET", path, FALSE, "trades", net, result,
                                Unwrap(result.outcome, "trades", EmptyList))
            /\ UNCHANGED <<client, ctor, environ>>

GetEvents(p) ==
    \E limit \in LimitArgs(p), status \in StatusArgs(p), cursor \in OptStrArgs(p),
       net \in PublicNets(p, "events") :
        LET params0 == [limit |-> Bind(limit, 100), status |-> Bind(status, "open")]
            params == WithOptStr(params0, "cursor", cursor)
            result == Request(client, "GET", "/events", Some(params), None, FALSE, net)
        IN  /\ last' = CallRecord("get_events",
                                [limit |-> limit, status |-> status, cursor |-> cursor],
                                "GET", "/events", FALSE, "events", net, result,
                                Unwrap(result.outcome, "events", EmptyList))
            /\ UNCHANGED <<client, ctor, environ>>

GetEvent(p) ==
    \E event_ticker \in Tickers, net \in PublicNets(p, "event") :
        LET path == "/events/" \o event_ticker
            result == Request(client, "GET", path, None, None, FALSE, net)
        IN  /\ last' = CallRecord("get_event", [event_ticker |-> Some(event_ticker)],
                                "GET", path, FALSE, "event", net, result,
                                Unwrap(result.outcome, "event", EmptyDict))
            /\ UNCHANGED <<client, ctor, environ>>

\* get_balance returns what _request returns: the whole envelope.
GetBalance(p) ==
    \E net \in AuthNets(p, "balance") :
        LET result == Request(client, "GET", "/portfolio/balance", None, None,
                              TRUE, net)
        IN  /\ last' = CallRecord("get_balance", <<>>, "GET", "/portfolio/balance", TRUE,
                                "balance", net, result, result.outcome)
            /\ UNCHANGED <<client, ctor, environ>>

GetPositions(p) ==
    \E ticker \in OptStrArgs(p), settlement_status \in SettlementArgs(p),
       net \in AuthNets(p, "market_positions") :
        LET params0 == [settlement_status |-> Bind(settlement_status, "unsettled")]
            params == WithOptStr(params0, "ticker", ticker)
            result == Request(client, "GET", "/portfolio/positions", Some(params),
                              None, TRUE, net)
        IN  /\ last' = CallRecord("get_positions",
                                [ticker |-> ticker, settlement_status |-> settlement_status],
                                "GET", "/portfolio/positions", TRUE, "market_positions", net,
                                result, Unwrap(result.outcome, "market_positions", EmptyList))
            /\ UNCHANGED <<client, ctor, environ>>

GetOrders(p) ==
    \E ticker \in OptStrArgs(p), status \in StatusArgs(p),
       net \in AuthNets(p, "orders") :
        LET params0 == [status |-> Bind(status, "resting")]
            params == WithOptStr(params0, "ticker", ticker)
            result == Request(client, "GET", "/portfolio/orders", Some(params),
                              None, TRUE, net)
        IN  /\ last' = CallRecord("get_orders", [ticker |-> ticker, status |-> status],
                                "GET", "/portfolio/orders", TRUE, "orders", net, result,
                                Unwrap(result.outcome, "orders", EmptyList))
            /\ UNCHANGED <<client, ctor, environ>>

\* Faulty variant: the price is sent for market orders too.
OrderPayloadPriceAlways(ticker, side, action, count, price, order_type) ==
    [ticker |-> ticker, side |-> side, action |-> action, type |-> order_type,
     count |-> count]
    @@ (IF side = "yes" THEN "yes_price" :> price ELSE "no_price" :> price)

\* The payload create_order builds (order_type already bound to its default).
OrderPayload(ticker, side, action, count, price, order_type) ==
    LET payload == [ticker |-> ticker, side |-> side, action |-> action,
                    type |-> order_type, count |-> count]
    IN  IF order_type = "limit"
        THEN IF side = "yes" THEN payload @@ ("yes_price" :> price)
             ELSE payload @@ ("no_price" :> price)
        ELSE payload

CreateOrder(p) ==
    \E ticker \in Tickers, side \in SideArgs(p), price \in PriceArgs(p),
       order_type \in OrderTypeArgs(p), net \in AuthNets(p, "order") :
        LET payload == OrderPayload(ticker, side, "buy", 5, price,
                                    Bind(order_type, "limit"))
            result == Request(client, "POST", "/portfolio/orders", None,
                              Some(payload), TRUE, net)
        IN  /\ last' = CallRecord("create_order",
                                [ticker |-> Some(ticker), side |-> Some(side),
                                 action |-> Some("buy"), count |-> Some(5), price |-> Some(price),
                                 order_type |-> order_type],
                                "POST", "/portfolio/orders", TRUE, "order", net, result,
                                Unwrap(result.outcome, "order", EmptyDict))
            /\ UNCHANGED <<client, ctor, environ>>

CancelOrder(p) ==
    \E order_id \in { "O1" }, net \in AuthNets(p, "order") :
        LET path == "/portfolio/orders/" \o order_id
            result == Request(client, "DELETE", path, None, None, TRUE, net)
        IN  /\ last' = CallRecord("cancel_order", [order_id |-> Some(order_id)],
                                "DELETE", path, TRUE, "order", net, result,
                                Unwrap(result.outcome, "order", EmptyDict))
            /\ UNCHANGED <<client, ctor, environ>>

(***************************************************************************)
(* The environment variables may change at any time after construction.    *)
(***************************************************************************)
EnvNames == { "KALSHI_API_KEY", "KALSHI_PRIVATE_KEY" }

EnvValues(name) ==
    IF name = "KALSHI_API_KEY" THEN { None, Some("EK") }
    ELSE { None, Some("PEM_E") }

SetEnv ==
    /\ \E name \in EnvNames : \E value \in EnvValues(name) :
          /\ value # environ[name]
          /\ environ' = [environ EXCEPT ![name] = value]
    /\ UNCHANGED <<client, ctor, last>>

(***************************************************************************)
(* Specifications.                                                         *)
(***************************************************************************)
Environs == { e \in [EnvNames -> {None, Some("EK"), Some("PEM_E")}] :
                 \A n \in EnvNames : e[n] \in EnvValues(n) }

\* Every way of constructing a client.
AllCtorArgs ==
    [ api_key : { None, Some(""), Some("AK") },
      private_key_pem : { None, Some(""), Some("PEM_A") },
      base_url : { None, Some(""), Some("http://localhost:8080") },
      demo : BOOLEAN ]

\* With and without each credential, on the production URL.
PlainCtorArgs ==
    [ api_key : { None, Some(""), Some("AK") },
      private_key_pem : { None, Some("PEM_A") },
      base_url : { None },
      demo : { FALSE } ]

NoEnviron == [n \in EnvNames |-> None]

InitWith(CtorArgs, Envs) ==
    \E args \in CtorArgs, env \in Envs :
        /\ environ = env
        /\ ctor = [args |-> args, env |-> env]
        /\ client = Construct(args, env)
        /\ last = NoCall

Calls(p) ==
    \/ GetMarkets(p)
    \/ GetMarket(p)
    \/ GetOrderbook(p)
    \/ GetTrades(p)
    \/ GetEvents(p)
    \/ GetEvent(p)
    \/ GetBalance(p)
    \/ GetPositions(p)
    \/ GetOrders(p)
    \/ CreateOrder(p)
    \/ CancelOrder(p)

\* Spec: every answer of the transport, to every endpoint method.
WideResponses == [args |-> FALSE, responses |-> TRUE]
Init == InitWith(PlainCtorArgs, {NoEnviron})
Next == Calls(WideResponses)
Spec == Init /\ [][Next]_vars

\* SpecArgs: every argument set and clock reading, to every endpoint method.
WideArgs == [args |-> TRUE, responses |-> FALSE]
NextArgs == Calls(WideArgs)
SpecArgs == Init /\ [][NextArgs]_vars

\* SpecConfig: every construction, with the environment changing afterwards.
Narrow == [args |-> FALSE, responses |-> FALSE]
InitConfig == InitWith(AllCtorArgs, Environs)
NextConfig == Calls(Narrow) \/ SetEnv
SpecConfig == InitConfig /\ [][NextConfig]_vars

(***************************************************************************)
(* Vocabulary of the properties.                                           *)
(***************************************************************************)
PublicOps ==
    { "get_markets", "get_market", "get_orderbook", "get_trades", "get_events",
      "get_event" }

AuthOps ==
    { "get_balance", "get_positions", "get_orders", "create_order", "cancel_order" }

SignedHeaderNames ==
    { "KALSHI-ACCESS-KEY", "KALSHI-ACCESS-SIGNATURE", "KALSHI-ACCESS-TIMESTAMP",
      "Content-Type" }

Called == last.op # "none"
Sent == last.sent # <<>>
Answered == Sent /\ ~last.net.response.error
Status == last.net.response.status
Is2xx(status) == 200 <= status /\ status <= 299
Is4xx5xx(status) == 400 <= status /\ status <= 599

\* The query parameters or the JSON body handed to the transport.
Outgoing ==
    IF last.sent[1].params # None THEN last.sent[1].params[1]
    ELSE IF last.sent[1].json # None THEN last.sent[1].json[1]
    ELSE <<>>

\* The optional parameters of the operation (section 4.2 of the specification):
\* those the code gives a default, and those it defaults to None.
DefaultedArgs ==
    CASE last.op \in {"get_markets", "get_events"} -> {"limit", "status"}
      [] last.op = "get_trades" -> {"limit"}
      [] last.op = "get_positions" -> {"settlement_status"}
      [] last.op = "get_orders" -> {"status"}
      [] last.op = "create_order" -> {"order_type"}
      [] OTHER -> {}

NoneArgs ==
    CASE last.op = "get_markets" -> {"cursor", "event_ticker"}
      [] last.op \in {"get_trades", "get_events"} -> {"cursor"}
      [] last.op = "get_orderbook" -> {"depth"}
      [] last.op \in {"get_positions", "get_orders"} -> {"ticker"}
      [] OTHER -> {}

\* The key a parameter travels under.
KeyOf(a) == IF a = "order_type" THEN "type" ELSE a

DefaultOf(a) ==
    CASE a = "limit" -> 100
      [] a = "status" -> IF last.op = "get_orders" THEN "resting" ELSE "open"
      [] a = "settlement_status" -> "unsettled"
      [] a = "order_type" -> "limit"

Falsy(a) ==
    \/ last.args[a] = None
    \/ IF a = "depth" THEN last.args[a][1] = 0 ELSE last.args[a][1] = ""

\* The credentials and base URL the construction resolved.
ResolvedKeyId ==
    IF ctor.args.api_key # None /\ ctor.args.api_key[1] # ""
    THEN ctor.args.api_key ELSE ctor.env["KALSHI_API_KEY"]

ResolvedPem ==
    IF ctor.args.private_key_pem # None /\ ctor.args.private_key_pem[1] # ""
    THEN ctor.args.private_key_pem ELSE ctor.env["KALSHI_PRIVATE_KEY"]

\* Every authenticated request is signed with the credentials c.
SignsWith(keyid, pem) ==
    last.authenticated =>
        \A i \in DOMAIN last.sent :
            LET h == last.sent[i].headers
            IN  /\ h["KALSHI-ACCESS-KEY"] = keyid[1]
                /\ h["KALSHI-ACCESS-SIGNATURE"] =
                       B64(Sign("key<" \o pem[1] \o ">",
                                h["KALSHI-ACCESS-TIMESTAMP"] \o last.method
                                    \o last.path))

(***************************************************************************)
(* C1.  An authenticated endpoint method called on a client whose key      *)
(* identifier or whose private key is missing (either one alone) raises    *)
(* the configuration error (ValueError), without reading the clock,        *)
(* signing, or invoking the transport.                                     *)
(***************************************************************************)
C1_NoCredentialsNoRequest ==
    ( /\ last.op \in AuthOps
      /\ \/ client.api_key = None
         \/ client.api_key = Some("")
         \/ client.private_key = None )
    => /\ last.outcome.kind = "raise"
       /\ last.outcome.error = "ValueError"
       /\ last.sent = <<>>
       /\ last.clockReads = 0

C1_Witness ==
    /\ last.op = "create_order"
    /\ client.api_key = Some("AK")
    /\ client.private_key = None
    /\ last.outcome.error = "ValueError"
    /\ last.sent = <<>>

(***************************************************************************)
(* C2.  The body create_order sends to POST /portfolio/orders holds        *)
(* yes_price = price and no no_price for a limit order on side "yes",      *)
(* no_price = price and no yes_price for a limit order on any other side,  *)
(* and neither key for a market order.                                     *)
(***************************************************************************)
C2_OrderPriceKey ==
    (last.op = "create_order" /\ Sent) =>
        LET body == last.sent[1].json[1]
            side == last.args.side[1]
            price == last.args.price[1]
            type == IF last.args.order_type = None THEN "limit"
                    ELSE last.args.order_type[1]
        IN  /\ last.sent[1].method = "POST"
            /\ last.sent[1].url = client.base_url \o "/portfolio/orders"
            /\ (type = "limit" /\ side = "yes") =>
                   /\ "yes_price" \in DOMAIN body
                   /\ body["yes_price"] = price
                   /\ "no_price" \notin DOMAIN body
            /\ (type = "limit" /\ side # "yes") =>
                   /\ "no_price" \in DOMAIN body
                   /\ body["no_price"] = price
                   /\ "yes_price" \notin DOMAIN body
            /\ type = "market" =>
                   /\ "yes_price" \notin DOMAIN body
                   /\ "no_price" \notin DOMAIN body

C2_Witness ==
    /\ last.op = "create_order"
    /\ Sent
    /\ last.args.order_type = Some("market")
    /\ last.args.price = Some(42)
    /\ DOMAIN last.sent[1].json[1] = {"ticker", "side", "action", "type", "count"}

(***************************************************************************)
(* C3.  An authenticated request reads the clock once; its signature is    *)
(* the signature of the timestamp it carries, its method and its path      *)
(* joined with nothing between them, and so of nothing else (no query      *)
(* parameter, no body).                                                    *)
(***************************************************************************)
C3_SignedMessage ==
    (last.authenticated /\ Sent) =>
        LET h == last.sent[1].headers
        IN  /\ last.clockReads = 1
            /\ h["KALSHI-ACCESS-TIMESTAMP"] = Str(last.net.clock[1])
            /\ h["KALSHI-ACCESS-SIGNATURE"] =
                   B64(Sign(client.private_key[1],
                            h["KALSHI-ACCESS-TIMESTAMP"] \o last.sent[1].method
                                \o last.path))

C3_Witness ==
    /\ last.op = "get_positions"
    /\ Sent
    /\ last.net.clock = <<MaxTime - 1, MaxTime>>
    /\ "ticker" \in DOMAIN last.sent[1].params[1]

(***************************************************************************)
(* C4 as stated.  Whatever non-2xx status the transport returns, the call  *)
(* raises the API-request error (HTTPError) carrying that response.        *)
(***************************************************************************)
C4_AnyNon2xxRaises ==
    (Called /\ Answered /\ ~Is2xx(Status)) =>
        /\ last.outcome.kind = "raise"
        /\ last.outcome.error = "HTTPError"
        /\ last.outcome.response = last.net.response

(***************************************************************************)
(* C4.  A status from 400 to 599 makes the call raise HTTPError carrying   *)
(* the status and the body, and return nothing; no other status does.      *)
(***************************************************************************)
C4_ErrorStatusRaises ==
    (Called /\ Answered) =>
        /\ Is4xx5xx(Status) =>
               /\ last.outcome.kind = "raise"
               /\ last.outcome.error = "HTTPError"
               /\ last.outcome.response = last.net.response
               /\ last.outcome.value = None
        /\ ~Is4xx5xx(Status) => last.outcome.error # "HTTPError"

C4_Witness ==
    /\ last.op = "get_market"
    /\ Answered
    /\ Status = 400
    /\ last.outcome.error = "HTTPError"
    /\ last.outcome.response.body = Wrap("error", "not_found")

(***************************************************************************)
(* C5 as stated.  An optional parameter for which no value is supplied is  *)
(* absent from the outgoing query or body, and one the caller supplied is  *)
(* present with the supplied value.  (A parameter with a default is read   *)
(* here as supplied by its default when the caller passes nothing.)        *)
(***************************************************************************)
C5_SuppliedIffPresent ==
    (Called /\ Sent) =>
        /\ \A a \in NoneArgs :
               last.args[a] = None => KeyOf(a) \notin DOMAIN Outgoing
        /\ \A a \in DefaultedArgs \cup NoneArgs :
               last.args[a] # None =>
                   /\ KeyOf(a) \in DOMAIN Outgoing
                   /\ Outgoing[KeyOf(a)] = last.args[a][1]

(***************************************************************************)
(* C5.  A parameter defaulting to None (cursor, event_ticker, depth, the   *)
(* ticker filter) is absent when the caller left it out or passed a falsy  *)
(* value (empty string, 0), and present with the supplied value otherwise; *)
(* a parameter with a default (limit, status, settlement_status,           *)
(* order_type) is always present, with the supplied value or the default;  *)
(* get_markets(limit=10, status="open") sends exactly those two.           *)
(***************************************************************************)
C5_OptionalParameters ==
    (Called /\ Sent) =>
        /\ \A a \in NoneArgs :
               /\ Falsy(a) => KeyOf(a) \notin DOMAIN Outgoing
               /\ ~Falsy(a) =>
                      /\ KeyOf(a) \in DOMAIN Outgoing
                      /\ Outgoing[KeyOf(a)] = last.args[a][1]
        /\ \A a \in DefaultedArgs :
               /\ KeyOf(a) \in DOMAIN Outgoing
               /\ Outgoing[KeyOf(a)] =
                      IF last.args[a] = None THEN DefaultOf(a) ELSE last.args[a][1]
        /\ ( /\ last.op = "get_markets"
             /\ last.args = [limit |-> Some(10), status |-> Some("open"),
                             cursor |-> None, event_ticker |-> None] )
           => /\ last.sent[1].params = Some([limit |-> 10, status |-> "open"])
              /\ last.sent[1].method = "GET"
              /\ last.path = "/markets"

C5_Witness ==
    /\ last.op = "get_orderbook"
    /\ Sent
    /\ last.args.depth = Some(0)
    /\ last.sent[1].params = Some(<<>>)

(***************************************************************************)
(* C6.  Signing is fixed per operation, whatever the credentials: a        *)
(* request of a public method carries the Content-Type header alone; a     *)
(* request of an authenticated method carries the four signed headers,     *)
(* computed for its own method and path.                                   *)
(***************************************************************************)
C6_SigningFixedPerOperation ==
    Called =>
        /\ last.authenticated <=> last.op \in AuthOps
        /\ \A i \in DOMAIN last.sent :
               LET r == last.sent[i]
               IN  IF last.op \in PublicOps
                   THEN r.headers = ("Content-Type" :> "application/json")
                   ELSE /\ DOMAIN r.headers = SignedHeaderNames
                        /\ r.headers["Content-Type"] = "application/json"
                        /\ r.headers["KALSHI-ACCESS-KEY"] = client.api_key[1]
                        /\ r.url = client.base_url \o last.path
                        /\ r.headers["KALSHI-ACCESS-SIGNATURE"] =
                               B64(Sign(client.private_key[1],
                                        r.headers["KALSHI-ACCESS-TIMESTAMP"]
                                            \o r.method \o last.path))

C6_Witness ==
    /\ last.op = "get_markets"
    /\ Sent
    /\ client.api_key = Some("AK")
    /\ client.private_key # None
    /\ DOMAIN last.sent[1].headers = {"Content-Type"}

(***************************************************************************)
(* C7 as stated.  An explicit argument, whenever one is passed, is the     *)
(* credential used, not the environment variable; the environment          *)
(* variable is used when no argument is passed; and the client signs with  *)
(* these whatever the environment and the calls since.  (An empty          *)
(* credential and an absent one are both no credential.)                   *)
(***************************************************************************)
C7_ExplicitArgumentWins ==
    LET Used(x) == IF x = Some("") THEN None ELSE x
    IN  /\ Used(client.api_key) =
               IF ctor.args.api_key # None THEN Used(ctor.args.api_key)
               ELSE Used(ctor.env["KALSHI_API_KEY"])
        /\ Used(client.private_key_pem) =
               IF ctor.args.private_key_pem # None
               THEN Used(ctor.args.private_key_pem)
               ELSE Used(ctor.env["KALSHI_PRIVATE_KEY"])
        /\ SignsWith(client.api_key, client.private_key_pem)

(***************************************************************************)
(* C7.  Each credential is the explicit argument when a non-empty one is   *)
(* passed, the environment variable as it stood at construction when the   *)
(* argument is absent or empty; and the client signs with these whatever   *)
(* the environment and the calls since.                                    *)
(***************************************************************************)
C7_CredentialsResolvedOnce ==
    /\ client.api_key = ResolvedKeyId
    /\ client.private_key_pem = ResolvedPem
    /\ SignsWith(ResolvedKeyId, ResolvedPem)

C7_Witness ==
    /\ ctor.args.api_key = Some("")
    /\ ctor.env["KALSHI_API_KEY"] = Some("EK")
    /\ ctor.args.private_key_pem = Some("PEM_A")
    /\ ctor.env["KALSHI_PRIVATE_KEY"] = Some("PEM_E")
    /\ environ = [n \in EnvNames |-> None]
    /\ last.op = "get_balance"
    /\ Sent
    /\ last.sent[1].headers["KALSHI-ACCESS-KEY"] = "EK"

(***************************************************************************)
(* C8 as stated.  The base URL is the demo URL under the demo flag, else   *)
(* the override whenever one is supplied, else the production URL; it      *)
(* stays so, and every request goes to the base URL followed by the path.  *)
(***************************************************************************)
C8_OverrideWheneverSupplied ==
    /\ client.base_url =
           IF ctor.args.demo THEN "https://demo-api.kalshi.co/trade-api/v2"
           ELSE IF ctor.args.base_url # None THEN ctor.args.base_url[1]
           ELSE "https://api.elections.kalshi.com/trade-api/v2"
    /\ \A i \in DOMAIN last.sent : last.sent[i].url = client.base_url \o last.path

(***************************************************************************)
(* C8.  The base URL is the demo URL under the demo flag, else the         *)
(* override when a non-empty one is supplied, else the production URL; it  *)
(* stays so after any calls, and every request goes to the base URL        *)
(* followed by the path.                                                   *)
(***************************************************************************)
C8_BaseUrlFixed ==
    LET base ==
            IF ctor.args.demo THEN "https://demo-api.kalshi.co/trade-api/v2"
            ELSE IF ctor.args.base_url # None /\ ctor.args.base_url[1] # ""
            THEN ctor.args.base_url[1]
            ELSE "https://api.elections.kalshi.com/trade-api/v2"
    IN  /\ client.base_url = base
        /\ \A i \in DOMAIN last.sent : last.sent[i].url = base \o last.path

C8_Witness ==
    /\ ~ctor.args.demo
    /\ ctor.args.base_url = Some("")
    /\ last.op = "get_market"
    /\ last.outcome.kind = "raise"
    /\ Sent
    /\ last.sent[1].url =
           "https://api.elections.kalshi.com/trade-api/v2/markets/T"

(***************************************************************************)
(* C9 as stated.  A call invokes the transport at most once, and after a   *)
(* transport error, a non-2xx status or a body that is not JSON the        *)
(* caller receives the failure.                                            *)
(***************************************************************************)
C9_Non2xxFails ==
    Called =>
        /\ Len(last.sent) <= 1
        /\ ( /\ Sent
             /\ \/ last.net.response.error
                \/ ~Is2xx(Status)
                \/ ~JsonLoads(last.net.response.body).ok )
           => last.outcome.kind = "raise"

(***************************************************************************)
(* C9.  A call invokes the transport at most once, and after a transport   *)
(* error, a status from 400 to 599, or a body that is not JSON under any   *)
(* other status, the caller receives that failure.                         *)
(***************************************************************************)
C9_AtMostOneRequest ==
    Called =>
        /\ Len(last.sent) <= 1
        /\ Sent =>
               IF last.net.response.error
               THEN last.outcome = Raise("ConnectionError", NoResponse)
               ELSE IF Is4xx5xx(Status)
               THEN last.outcome = Raise("HTTPError", last.net.response)
               ELSE ~JsonLoads(last.net.response.body).ok
                        => last.outcome = Raise("JSONDecodeError", NoResponse)

C9_Witness ==
    /\ last.op = "cancel_order"
    /\ Len(last.sent) = 1
    /\ Status = 200
    /\ last.outcome.error = "JSONDecodeError"

(***************************************************************************)
(* C10 as stated.  A call that returns a value returns the payload the     *)
(* response holds under the endpoint's envelope field (the whole envelope  *)
(* for get_balance), never a value that was not in the response.           *)
(***************************************************************************)
C10_NeverADefault ==
    (Called /\ last.outcome.kind = "return") =>
        LET parsed == JsonLoads(last.net.response.body)
        IN  /\ Answered
            /\ parsed.ok
            /\ IF last.op = "get_balance"
               THEN last.outcome.value[1] =
                        [type |-> parsed.type, members |-> parsed.members]
               ELSE /\ last.field \in DOMAIN parsed.members
                    /\ last.outcome.value[1] = parsed.members[last.field]

(***************************************************************************)
(* C10.  A call that returns a value returns the payload the response      *)
(* holds under the endpoint's envelope field (the whole envelope for       *)
(* get_balance) or, when the envelope is a JSON object without that        *)
(* field, the endpoint's empty container: an empty list for the list       *)
(* endpoints, an empty mapping for the others.  A JSON object never makes  *)
(* an unwrapping call fail.                                                *)
(***************************************************************************)
C10_PayloadOrEmptyContainer ==
    LET parsed == JsonLoads(last.net.response.body)
        empty == IF last.op \in {"get_markets", "get_trades", "get_events",
                                 "get_positions", "get_orders"}
                 THEN "[]" ELSE "{}"
    IN  /\ (Called /\ last.outcome.kind = "return") =>
               /\ Answered
               /\ parsed.ok
               /\ IF last.op = "get_balance"
                  THEN last.outcome.value[1] =
                           [type |-> parsed.type, members |-> parsed.members]
                  ELSE /\ parsed.type = "dict"
                       /\ last.outcome.value[1] =
                              IF last.field \in DOMAIN parsed.members
                              THEN parsed.members[last.field]
                              ELSE empty
        /\ ( /\ Called
             /\ Answered
             /\ ~Is4xx5xx(Status)
             /\ parsed.ok
             /\ parsed.type = "dict" )
           => last.outcome.kind = "return"

C10_Witness ==
    /\ last.op = "get_markets"
    /\ Status = 200
    /\ last.net.response.body = Wrap("error", "not_found")
    /\ last.outcome = Return("[]")

====
